---- MODULE Spec2Model ----
(***************************************************************************)
(* Model of the eda-cli quality metrics (HW03 eda_cli/core.py), of the CLI *)
(* report command that calls them (HW03 eda_cli/cli.py) and of the two     *)
(* POST handlers of the HTTP API (HW04 eda_cli/api.py).                    *)
(*                                                                         *)
(* A DataFrame is a record [columns, values]: columns is the sequence of   *)
(* column descriptors [name, dtype], values[c] is the sequence of the      *)
(* cells of column c, one per row.  A null cell is the value NULL.         *)
(* A float is an exact fraction [n, d]; d = 0 encodes the IEEE specials:   *)
(* 0/0 is NaN, 1/0 is +inf, -1/0 is -inf.                                  *)
(***************************************************************************)
EXTENDS Integers, Sequences, FiniteSets, TLC

VARIABLES df, pc, flags, http

vars == <<df, pc, flags, http>>

(***************************************************************************)
(* Bounds of the explored inputs.                                          *)
(***************************************************************************)
MaxRows == 3

NULL == "NaN"

CellValues == {NULL, "a", "b"}

NarrowCellValues == {NULL, "a"}

\* column names, as sequences of characters
Name_user_id == <<"u", "s", "e", "r", "_", "i", "d">>

Name_ID == <<"I", "D">>

Name_Key == <<"K", "e", "y">>

Name_index == <<"i", "n", "d", "e", "x">>

Name_status == <<"s", "t", "a", "t", "u", "s">>

Name_keys == <<"k", "e", "y", "s">>

Name_width == <<"w", "i", "d", "t", "h">>

Name_ts == <<"t", "s">>

Col(name, dtype) == [name |-> name, dtype |-> dtype]

Schema(columns, dom) == [columns |-> columns, dom |-> dom]

\* the column layouts of the explored tables, each with the values its cells
\* range over; every table has at least one column and distinct column
\* names (what pd.read_csv produces)
Schemas ==
    { Schema(<<Col(Name_user_id, "int64")>>, CellValues),
      Schema(<<Col(Name_status, "object")>>, CellValues),
      Schema(<<Col(Name_Key, "category")>>, CellValues),
      Schema(<<Col(Name_width, "float64")>>, CellValues),
      Schema(<<Col(Name_user_id, "int64"), Col(Name_status, "object")>>, CellValues),
      Schema(<<Col(Name_keys, "object"), Col(Name_ts, "datetime64")>>, CellValues),
      Schema(<<Col(Name_status, "category"), Col(Name_index, "object")>>, CellValues),
      Schema(<<Col(Name_ID, "object"), Col(Name_user_id, "object"), Col(Name_Key, "object")>>,
             NarrowCellValues) }

\* the option values explored for --min-missing-share (fractions in [0, 1])
\* and --high-cardinality-threshold (positive integers)
MinMissingShares == { [n |-> 3, d |-> 10], [n |-> 1, d |-> 2] }

HighCardinalityThresholds == {1, 2}

(***************************************************************************)
(* Floats.                                                                 *)
(***************************************************************************)
Abs(x) == IF x < 0 THEN -x ELSE x

Sign(x) == IF x < 0 THEN -1 ELSE IF x > 0 THEN 1 ELSE 0

RECURSIVE GCD(_, _)
GCD(a, b) == IF b = 0 THEN a ELSE GCD(b, a % b)

Float(n, d) ==
    IF d = 0 THEN [n |-> Sign(n), d |-> 0]
    ELSE LET s == Sign(d)
             g == GCD(Abs(n), Abs(d))
         IN  [n |-> (s * Sign(n)) * (Abs(n) \div g), d |-> Abs(d) \div g]

NaN == [n |-> 0, d |-> 0]

IsNaN(x) == x.d = 0 /\ x.n = 0

FMul(x, y) == Float(x.n * y.n, x.d * y.d)

FAdd(x, y) ==
    IF x.d = 0 /\ y.d = 0
    THEN (IF x.n = y.n THEN x ELSE NaN)
    ELSE Float(x.n * y.d + y.n * x.d, x.d * y.d)

FSub(x, y) == FAdd(x, Float(-y.n, y.d))

\* x < y; every comparison with NaN is false
FLt(x, y) ==
    /\ ~IsNaN(x)
    /\ ~IsNaN(y)
    /\ IF x.d = 0 /\ y.d = 0 THEN x.n < y.n ELSE x.n * y.d < y.n * x.d

FGt(x, y) == FLt(y, x)

\* Python's builtin min(a, b): b if b < a, else a
PyMin(a, b) == IF FLt(b, a) THEN b ELSE a

\* Python's builtin max(a, b): b if b > a, else a
PyMax(a, b) == IF FGt(b, a) THEN b ELSE a

(***************************************************************************)
(* Strings: str.lower() and the substring test `sub in s`.                 *)
(***************************************************************************)
UpperCase == <<"A", "B", "C", "D", "E", "F", "G", "H", "I", "J", "K", "L", "M",
               "N", "O", "P", "Q", "R", "S", "T", "U", "V", "W", "X", "Y", "Z">>

LowerCase == <<"a", "b", "c", "d", "e", "f", "g", "h", "i", "j", "k", "l", "m",
               "n", "o", "p", "q", "r", "s", "t", "u", "v", "w", "x", "y", "z">>

LowerChar(ch) ==
    IF \E k \in DOMAIN UpperCase : UpperCase[k] = ch
    THEN LowerCase[CHOOSE k \in DOMAIN UpperCase : UpperCase[k] = ch]
    ELSE ch

lower(s) == [k \in DOMAIN s |-> LowerChar(s[k])]

Contains(sub, s) ==
    \E k \in 1..(Len(s) - Len(sub) + 1) : SubSeq(s, k, k + Len(sub) - 1) = sub

(***************************************************************************)
(* pandas reductions.  A reduction result is a numpy scalar; shape and     *)
(* len() give Python ints.  The two differ in x / 0: a numpy scalar gives  *)
(* nan or inf (with a RuntimeWarning), a Python int raises                 *)
(* ZeroDivisionError.                                                      *)
(***************************************************************************)
PyInt(v) == [kind |-> "int", v |-> v]

NpInt64(v) == [kind |-> "np.int64", v |-> v]

\* x / y for a number x (int or np.int64) and a Python int y
TruedivRaises(x, y) == x.kind = "int" /\ y = 0

Truediv(x, y) == Float(x.v, y)

n_cols(t) == Len(t.columns)

n_rows(t) == Len(t.values[1])

\* Series.isnull().sum()
isnull_sum(s) == NpInt64(Cardinality({k \in DOMAIN s : s[k] = NULL}))

\* Series.nunique(dropna=True), the default
nunique(s) == Cardinality({s[k] : k \in DOMAIN s} \ {NULL})

\* duplicated(keep=False).sum(): every row whose value occurs more than once
duplicated_sum_keep_false(s) ==
    NpInt64(Cardinality({k \in DOMAIN s : \E j \in DOMAIN s : j # k /\ s[j] = s[k]}))

\* Series.duplicated().sum(): rows equal to an earlier row; nulls are equal
\* to each other
duplicated_sum(s) ==
    NpInt64(Cardinality({k \in DOMAIN s : \E j \in 1..(k - 1) : s[j] = s[k]}))

Row(t, r) == [c \in 1..n_cols(t) |-> t.values[c][r]]

\* DataFrame.isnull().sum().sum()
df_isnull_sum_sum(t) ==
    NpInt64(Cardinality({cr \in (1..n_cols(t)) \X (1..n_rows(t)) :
                            t.values[cr[1]][cr[2]] = NULL}))

\* DataFrame.duplicated().sum()
df_duplicated_sum(t) ==
    NpInt64(Cardinality({r \in 1..n_rows(t) :
                            \E j \in 1..(r - 1) : Row(t, j) = Row(t, r)}))

\* the positions of the columns, in column order
ColumnIndex(t) == [c \in 1..n_cols(t) |-> c]

\* DataFrame.select_dtypes(include=['object', 'category']).columns
select_dtypes_categorical(t) ==
    SelectSeq(ColumnIndex(t), LAMBDA c : t.columns[c].dtype \in {"object", "category"})

Range(s) == {s[k] : k \in DOMAIN s}

(***************************************************************************)
(* compute_quality_flags(df, min_missing_share, high_cardinality_threshold)*)
(***************************************************************************)
\* missing_share without the total_cells > 0 guard
missing_share_unguarded(t) ==
    Truediv(df_isnull_sum_sum(t), n_rows(t) * n_cols(t))

\* missing_cells / total_cells if total_cells > 0 else 0
missing_share(t) ==
    LET total_cells == n_rows(t) * n_cols(t)
        missing_cells == df_isnull_sum_sum(t)
    IN  IF total_cells > 0 THEN Truediv(missing_cells, total_cells) ELSE Float(0, 1)

\* df[col].isnull().sum() / n_rows, not guarded
missing_ratio(t, c) == Truediv(isnull_sum(t.values[c]), n_rows(t))

\* problematic_missing_cols with >= in place of >
problematic_missing_cols_ge(t, min_missing_share) ==
    LET picked == SelectSeq(ColumnIndex(t),
                            LAMBDA c : ~FLt(missing_ratio(t, c), min_missing_share)
                                       /\ ~IsNaN(missing_ratio(t, c)))
    IN  [k \in DOMAIN picked |->
            [column |-> t.columns[picked[k]].name,
             missing_ratio |-> missing_ratio(t, picked[k])]]

\* the list of {'column', 'missing_ratio'} of the columns whose ratio is
\* > min_missing_share, in column order
problematic_missing_cols(t, min_missing_share) ==
    LET picked == SelectSeq(ColumnIndex(t),
                            LAMBDA c : FGt(missing_ratio(t, c), min_missing_share))
    IN  [k \in DOMAIN picked |->
            [column |-> t.columns[picked[k]].name,
             missing_ratio |-> missing_ratio(t, picked[k])]]

\* constant_cols with nunique(dropna=False): a null counts as a value
constant_cols_with_null(t) ==
    LET picked == SelectSeq(ColumnIndex(t), LAMBDA c : Cardinality(Range(t.values[c])) = 1)
    IN  [k \in DOMAIN picked |-> t.columns[picked[k]].name]

\* the list of the columns with nunique(dropna=True) == 1, in column order
constant_cols(t) ==
    LET picked == SelectSeq(ColumnIndex(t), LAMBDA c : nunique(t.values[c]) = 1)
    IN  [k \in DOMAIN picked |-> t.columns[picked[k]].name]

\* high_cardinality_cols with >= in place of >
high_cardinality_cols_ge(t, high_cardinality_threshold) ==
    LET picked == {c \in Range(select_dtypes_categorical(t)) :
                      nunique(t.values[c]) >= high_cardinality_threshold}
    IN  [name \in {t.columns[c].name : c \in picked} |->
            nunique(t.values[CHOOSE c \in picked : t.columns[c].name = name])]

\* the dict column -> nunique() of the object/category columns whose
\* nunique() is > high_cardinality_threshold
high_cardinality_cols(t, high_cardinality_threshold) ==
    LET picked == {c \in Range(select_dtypes_categorical(t)) :
                      nunique(t.values[c]) > high_cardinality_threshold}
    IN  [name \in {t.columns[c].name : c \in picked} |->
            nunique(t.values[CHOOSE c \in picked : t.columns[c].name = name])]

\* 'id' in col.lower() or col.lower() in ['id', 'index', 'key']
is_possible_id(name) ==
    \/ Contains(<<"i", "d">>, lower(name))
    \/ lower(name) \in {<<"i", "d">>, <<"i", "n", "d", "e", "x">>, <<"k", "e", "y">>}

possible_id_cols(t) ==
    SelectSeq(ColumnIndex(t), LAMBDA c : is_possible_id(t.columns[c].name))

\* the dict column -> duplicated().sum() of the possible id columns whose
\* count is > 0
suspicious_id_duplicates(t) ==
    LET picked == {c \in Range(possible_id_cols(t)) : duplicated_sum(t.values[c]).v > 0}
    IN  [name \in {t.columns[c].name : c \in picked} |->
            duplicated_sum(t.values[CHOOSE c \in picked : t.columns[c].name = name]).v]

\* the duplicate penalty without its cap of 0.2
duplicates_penalty_uncapped(t) ==
    FMul(Truediv(df_duplicated_sum(t), n_rows(t)), Float(1, 2))

\* penalties['duplicates'] = min(0.2, duplicate_rows / n_rows * 0.5), not guarded
duplicates_penalty(t) ==
    PyMin(Float(1, 5), FMul(Truediv(df_duplicated_sum(t), n_rows(t)), Float(1, 2)))

\* sum(penalties.values())
penalties_sum(t, high_cardinality_threshold) ==
    LET missing == FMul(missing_share(t), Float(1, 2))
        duplicates == duplicates_penalty(t)
        constant == FMul(Float(Len(constant_cols(t)), 1), Float(1, 10))
        high_cardinality ==
            FMul(Float(Cardinality(DOMAIN high_cardinality_cols(t, high_cardinality_threshold)), 1),
                 Float(1, 20))
        id_duplicates ==
            FMul(Float(Cardinality(DOMAIN suspicious_id_duplicates(t)), 1), Float(3, 20))
    IN  FAdd(FAdd(FAdd(FAdd(missing, duplicates), constant), high_cardinality), id_duplicates)

\* the score left unclamped
clamp_none(q) == q

\* max(0.0, min(1.0, quality_score))
clamp(q) == PyMax(Float(0, 1), PyMin(Float(1, 1), q))

quality_score(t, high_cardinality_threshold) ==
    clamp(FSub(Float(1, 1), penalties_sum(t, high_cardinality_threshold)))

\* the divisions by n_rows of lines 32 and 70 raise when their numerator is
\* a Python int and n_rows = 0
compute_raises(t) ==
    \/ \E c \in 1..n_cols(t) : TruedivRaises(isnull_sum(t.values[c]), n_rows(t))
    \/ TruedivRaises(df_duplicated_sum(t), n_rows(t))

compute_quality_flags(t, min_missing_share, high_cardinality_threshold) ==
    [ n_rows |-> n_rows(t),
      n_cols |-> n_cols(t),
      missing_share |-> missing_share(t),
      has_missing |-> df_isnull_sum_sum(t).v > 0,
      duplicate_rows |-> df_duplicated_sum(t).v,
      has_duplicates |-> df_duplicated_sum(t).v > 0,
      quality_score |-> quality_score(t, high_cardinality_threshold),
      min_missing_share |-> min_missing_share,
      high_cardinality_threshold |-> high_cardinality_threshold,
      problematic_missing_cols |-> problematic_missing_cols(t, min_missing_share),
      has_constant_columns |-> Len(constant_cols(t)) > 0,
      constant_columns_list |-> constant_cols(t),
      has_high_cardinality_categoricals |->
          Cardinality(DOMAIN high_cardinality_cols(t, high_cardinality_threshold)) > 0,
      high_cardinality_columns |-> high_cardinality_cols(t, high_cardinality_threshold),
      has_suspicious_id_duplicates |-> Cardinality(DOMAIN suspicious_id_duplicates(t)) > 0,
      suspicious_id_duplicates |-> suspicious_id_duplicates(t),
      numeric_columns_count |->
          Cardinality({c \in 1..n_cols(t) : t.columns[c].dtype \in {"int64", "float64"}}),
      categorical_columns_count |-> Len(select_dtypes_categorical(t)),
      date_columns_count |->
          Cardinality({c \in 1..n_cols(t) : t.columns[c].dtype = "datetime64"}) ]

(***************************************************************************)
(* State.  df is the table the caller holds; flags is <<>> or the one      *)
(* QualityFlags record returned by the last call; http is <<>> or the one  *)
(* response of the API handler that ran.                                   *)
(***************************************************************************)
\* the tables with the columns of a schema and n rows
Tables(sch, n) ==
    { [columns |-> sch.columns, values |-> v] :
        v \in [DOMAIN sch.columns -> [1..n -> sch.dom]] }

\* no table: the handler's locals end with the request
NoTable == [columns |-> <<>>, values |-> <<>>]

Init ==
    /\ \E sch \in Schemas, n \in 0..MaxRows : df \in Tables(sch, n)
    /\ pc = "loaded"
    /\ flags = <<>>
    /\ http = <<>>

\* a caller (cli.report, with its two options) calls compute_quality_flags on
\* the table it loaded
ComputeQualityFlags(min_missing_share, high_cardinality_threshold) ==
    /\ pc = "loaded"
    /\ IF compute_raises(df)
       THEN /\ pc' = "raised"
            /\ flags' = <<>>
       ELSE /\ pc' = "returned"
            /\ flags' = <<compute_quality_flags(df, min_missing_share,
                                                high_cardinality_threshold)>>
    /\ UNCHANGED <<df, http>>

(***************************************************************************)
(* The HTTP API.  pd.read_csv either returns the table or raises;          *)
(* what follows it inside the try block may raise as well.                 *)
(***************************************************************************)
ReadCsvOutcomes == {"ok", "EmptyDataError", "ParserError", "UnicodeDecodeError"}

\* DatasetSummary(df) and summary.to_dict(): return or raise
DatasetSummaryOutcomes == {"ok", "Exception"}

\* JSONResponse(content=...): renders or raises on a value json cannot encode
JSONResponseOutcomes == {"ok", "TypeError"}

Response(endpoint, status_code, exc) ==
    [endpoint |-> endpoint, status_code |-> status_code, exc |-> exc]

\* POST /quality-from-csv: every exception is answered 400
quality_from_csv(read, summary) ==
    /\ pc = "loaded"
    /\ LET exc == IF read # "ok" THEN read
                  ELSE IF summary # "ok" THEN summary
                  ELSE "none"
       IN  http' = <<Response("/quality-from-csv", IF exc = "none" THEN 200 ELSE 400, exc)>>
    /\ pc' = "responded"
    /\ df' = NoTable
    /\ UNCHANGED flags

\* POST /quality-flags-from-csv: EmptyDataError and ParserError are answered
\* 400, every other exception 500
quality_flags_from_csv(read, json) ==
    /\ pc = "loaded"
    /\ LET exc == IF read # "ok" THEN read
                  ELSE IF compute_raises(df) THEN "ZeroDivisionError"
                  ELSE IF json # "ok" THEN json
                  ELSE "none"
           status_code == IF exc = "none" THEN 200
                          ELSE IF exc = "EmptyDataError" THEN 400
                          ELSE IF exc = "ParserError" THEN 400
                          ELSE 500
       IN  http' = <<Response("/quality-flags-from-csv", status_code, exc)>>
    /\ pc' = "responded"
    /\ df' = NoTable
    /\ UNCHANGED flags

Next ==
    \/ \E mms \in MinMissingShares, hct \in HighCardinalityThresholds :
          ComputeQualityFlags(mms, hct)
    \/ \E read \in ReadCsvOutcomes, summary \in DatasetSummaryOutcomes :
          quality_from_csv(read, summary)
    \/ \E read \in ReadCsvOutcomes, json \in JSONResponseOutcomes :
          quality_flags_from_csv(read, json)

Spec == Init /\ [][Next]_vars

TypeOK ==
    /\ pc \in {"loaded", "returned", "raised", "responded"}
    /\ Len(flags) <= 1
    /\ Len(http) <= 1

(***************************************************************************)
(* Properties.  Returned is the state after compute_quality_flags          *)
(* returned; R is the record it returned.                                  *)
(***************************************************************************)
Returned == pc = "returned"

R == flags[1]

Zero == [n |-> 0, d |-> 1]

One == [n |-> 1, d |-> 1]

NullCount(c) == Cardinality({r \in 1..n_rows(df) : df.values[c][r] = NULL})

\* distinct non-null values of column c
DistinctNonNull(c) == {df.values[c][r] : r \in 1..n_rows(df)} \ {NULL}

IsCategorical(c) == df.columns[c].dtype \in {"object", "category"}

\* rows of column c beyond the first occurrence of each value
RepeatCount(c) == n_rows(df) - Cardinality({df.values[c][r] : r \in 1..n_rows(df)})

\* the explored column names that contain "id" or are, lower-cased, one of
\* "id", "index", "key"
IdCandidateNames == {Name_user_id, Name_ID, Name_Key, Name_index, Name_width}

Occurrences(list, x) == Cardinality({k \in DOMAIN list : list[k] = x})

\* C1: the quality_score returned by compute_quality_flags lies in [0.0, 1.0]
\* for every table (zero rows included) and every pair of thresholds.
C1_ScoreInUnitInterval ==
    Returned =>
        /\ R.quality_score.d > 0
        /\ R.quality_score.n >= 0
        /\ R.quality_score.n <= R.quality_score.d

\* a table whose penalties add up to more than 1.0 and whose score is 0.0
C1_Witness ==
    /\ Returned
    /\ FGt(penalties_sum(df, R.high_cardinality_threshold), One)
    /\ R.quality_score = Zero

\* C2: a table with no missing value, no duplicate row, no constant column,
\* no high-cardinality column and no identifier-duplicate column scores
\* exactly 1.0, zero-row tables included.
C2_CleanTableScoresOne ==
    ( /\ Returned
      /\ \A c \in 1..n_cols(df) : NullCount(c) = 0
      /\ R.duplicate_rows = 0
      /\ R.constant_columns_list = <<>>
      /\ DOMAIN R.high_cardinality_columns = {}
      /\ DOMAIN R.suspicious_id_duplicates = {} )
    => R.quality_score = One

\* C3: on a table with 0 rows and at least one column compute_quality_flags
\* returns (it does not raise) and the missing_share it returns is 0.
C3_ZeroRowsNoRaise ==
    (pc \in {"returned", "raised"} /\ n_cols(df) >= 1 /\ n_rows(df) = 0)
    => (pc = "returned" /\ R.missing_share = Zero)

\* compute_quality_flags returned on a table with 0 rows
C3_Witness ==
    /\ Returned
    /\ n_cols(df) >= 1
    /\ n_rows(df) = 0
    /\ R.n_rows = 0

\* C4: a column is listed in problematic_missing_cols iff its null ratio
\* (nulls / rows) is strictly greater than min_missing_share; it is listed
\* once, with its name and that ratio.
C4_ProblematicMissing ==
    Returned =>
        /\ \A c \in 1..n_cols(df) :
              LET listed == {k \in DOMAIN R.problematic_missing_cols :
                                R.problematic_missing_cols[k].column = df.columns[c].name}
                  exceeds == /\ n_rows(df) > 0
                             /\ NullCount(c) * R.min_missing_share.d
                                  > R.min_missing_share.n * n_rows(df)
              IN  /\ Cardinality(listed) = (IF exceeds THEN 1 ELSE 0)
                  /\ \A k \in listed :
                        LET ratio == R.problematic_missing_cols[k].missing_ratio
                        IN  /\ ratio.d > 0
                            /\ ratio.n * n_rows(df) = NullCount(c) * ratio.d
        /\ \A k \in DOMAIN R.problematic_missing_cols :
              \E c \in 1..n_cols(df) :
                  R.problematic_missing_cols[k].column = df.columns[c].name

\* one column whose ratio equals the threshold and is not listed, next to a
\* column whose ratio exceeds it and is listed
C4_Witness ==
    /\ Returned
    /\ n_rows(df) > 0
    /\ \E c1, c2 \in 1..n_cols(df) :
          /\ NullCount(c1) * R.min_missing_share.d = R.min_missing_share.n * n_rows(df)
          /\ \A k \in DOMAIN R.problematic_missing_cols :
                R.problematic_missing_cols[k].column # df.columns[c1].name
          /\ NullCount(c2) * R.min_missing_share.d > R.min_missing_share.n * n_rows(df)
          /\ \E k \in DOMAIN R.problematic_missing_cols :
                R.problematic_missing_cols[k].column = df.columns[c2].name

\* C5: a column is recorded in high_cardinality_columns, with its count of
\* distinct (non-null) values, iff it is an object/category column and that
\* count is strictly greater than high_cardinality_threshold; numeric and
\* datetime columns are never recorded.
C5_HighCardinality ==
    Returned =>
        /\ DOMAIN R.high_cardinality_columns =
              {df.columns[c].name : c \in {x \in 1..n_cols(df) :
                  /\ IsCategorical(x)
                  /\ Cardinality(DistinctNonNull(x)) > R.high_cardinality_threshold}}
        /\ \A c \in 1..n_cols(df) :
              df.columns[c].name \in DOMAIN R.high_cardinality_columns
              => R.high_cardinality_columns[df.columns[c].name]
                    = Cardinality(DistinctNonNull(c))

\* a categorical column with threshold + 1 distinct values is recorded and
\* another with exactly threshold distinct values is not
C5_Witness ==
    /\ Returned
    /\ \E c1, c2 \in 1..n_cols(df) :
          /\ IsCategorical(c1)
          /\ IsCategorical(c2)
          /\ Cardinality(DistinctNonNull(c1)) = R.high_cardinality_threshold + 1
          /\ df.columns[c1].name \in DOMAIN R.high_cardinality_columns
          /\ Cardinality(DistinctNonNull(c2)) = R.high_cardinality_threshold
          /\ df.columns[c2].name \notin DOMAIN R.high_cardinality_columns

\* C6: constant_columns_list holds exactly the columns with exactly one
\* distinct non-null value, each exactly once.
C6_ConstantColumns ==
    Returned =>
        /\ \A c \in 1..n_cols(df) :
              Occurrences(R.constant_columns_list, df.columns[c].name)
                 = (IF Cardinality(DistinctNonNull(c)) = 1 THEN 1 ELSE 0)
        /\ \A k \in DOMAIN R.constant_columns_list :
              \E c \in 1..n_cols(df) : R.constant_columns_list[k] = df.columns[c].name

\* a column with one repeated value and a null is listed once, next to an
\* all-null column that is not listed
C6_Witness ==
    /\ Returned
    /\ n_rows(df) >= 2
    /\ \E c1, c2 \in 1..n_cols(df) :
          /\ Cardinality(DistinctNonNull(c1)) = 1
          /\ NullCount(c1) = 1
          /\ Occurrences(R.constant_columns_list, df.columns[c1].name) = 1
          /\ NullCount(c2) = n_rows(df)
          /\ Occurrences(R.constant_columns_list, df.columns[c2].name) = 0

\* C7: suspicious_id_duplicates has an entry for a column iff the column is
\* an identifier candidate and has at least one row that repeats the value
\* of an earlier row; the entry is the number of such rows.
C7_SuspiciousIdDuplicates ==
    Returned =>
        /\ DOMAIN R.suspicious_id_duplicates =
              {df.columns[c].name : c \in {x \in 1..n_cols(df) :
                  /\ df.columns[x].name \in IdCandidateNames
                  /\ RepeatCount(x) > 0}}
        /\ \A c \in 1..n_cols(df) :
              df.columns[c].name \in DOMAIN R.suspicious_id_duplicates
              => R.suspicious_id_duplicates[df.columns[c].name] = RepeatCount(c)

\* a column named user_id with two repeating rows has an entry with count 2
C7_Witness ==
    /\ Returned
    /\ \E c \in 1..n_cols(df) :
          /\ df.columns[c].name = Name_user_id
          /\ RepeatCount(c) = 2
          /\ R.suspicious_id_duplicates[Name_user_id] = 2

\* C8: both POST handlers answer a CSV-parsing failure (EmptyDataError,
\* ParserError) with 400 and any other failure with 500.
C8_FailureMapping ==
    pc = "responded" =>
        /\ http[1].exc \in {"EmptyDataError", "ParserError"} => http[1].status_code = 400
        /\ http[1].exc \notin {"none", "EmptyDataError", "ParserError"}
              => http[1].status_code = 500

\* the duplicate penalty the claim describes: guarded against n_rows = 0
GuardedDuplicatesPenalty ==
    IF n_rows(df) > 0
    THEN LET half == [n |-> df_duplicated_sum(df).v, d |-> 2 * n_rows(df)]
         IN  IF half.n * 5 < half.d THEN Float(half.n, half.d) ELSE Float(1, 5)
    ELSE Zero

\* C10: the duplicate penalty of the score is
\* min(0.2, duplicate_rows / n_rows * 0.5) when n_rows > 0 and 0 when
\* n_rows = 0.
C10_DuplicatesPenaltyGuarded ==
    Returned => duplicates_penalty(df) = GuardedDuplicatesPenalty

\* the denominator over which the five penalties of the returned record are
\* whole numbers: 20 * (denominator of missing_share) * n_rows
PenaltyUnit == 20 * R.missing_share.d * R.n_rows

\* the penalties of the claim, in units of 1 / PenaltyUnit, from the fields
\* of the returned record
MissingUnits == 10 * R.missing_share.n * R.n_rows

DuplicateUnits ==
    LET cap == 4 * R.missing_share.d * R.n_rows
        raw == 10 * R.duplicate_rows * R.missing_share.d
    IN  IF raw < cap THEN raw ELSE cap

ColumnUnits ==
    ( 2 * Len(R.constant_columns_list)
      + Cardinality(DOMAIN R.high_cardinality_columns)
      + 3 * Cardinality(DOMAIN R.suspicious_id_duplicates) )
    * R.missing_share.d * R.n_rows

PenaltyUnits == MissingUnits + DuplicateUnits + ColumnUnits

ClampedUnits ==
    IF PenaltyUnits >= PenaltyUnit THEN 0 ELSE PenaltyUnit - PenaltyUnits

\* C11: with at least one row, quality_score is
\* clamp(1.0 - (missing_share * 0.5 + min(0.2, duplicate_rows / n_rows * 0.5)
\* + 0.1 * constant columns + 0.05 * high-cardinality columns
\* + 0.15 * flagged identifier columns), 0.0, 1.0), the counts being the
\* lengths of the lists of the same record, and the missing penalty is at
\* most 0.5.
C11_ScoreFormula ==
    (Returned /\ R.n_rows >= 1) =>
        /\ R.missing_share.d > 0
        /\ R.quality_score.d > 0
        /\ R.quality_score.n * PenaltyUnit = ClampedUnits * R.quality_score.d
        /\ 2 * MissingUnits <= PenaltyUnit

\* a table with rows whose five penalties are all charged, the duplicate
\* penalty at its cap, and add up to more than 1.0: it scores exactly 0.0
C11_Witness ==
    /\ Returned
    /\ R.n_rows >= 1
    /\ MissingUnits > 0
    /\ 10 * R.duplicate_rows * R.missing_share.d > 4 * R.missing_share.d * R.n_rows
    /\ Len(R.constant_columns_list) > 0
    /\ Cardinality(DOMAIN R.suspicious_id_duplicates) > 0
    /\ PenaltyUnits > PenaltyUnit
    /\ R.quality_score.n = 0

====
